---- MODULE Spec2Model ----
(***************************************************************************)
(* Project Aadi conversational agent (src/app.py).                         *)
(*                                                                         *)
(* The Streamlit script is run top to bottom on every interaction.  The    *)
(* state is st.session_state (messages, last_user_id), the cached result   *)
(* of load_data and the position of the script run.  A text is a sequence  *)
(* of one-character strings; a dict is a sequence of <<key, value>> pairs  *)
(* in insertion order; an Optional value is a record [isNone, v].          *)
(***************************************************************************)
EXTENDS Naturals, Sequences, FiniteSets, TLC

\* Number of chat inputs a behaviour submits.
MaxTurns == 3

-----------------------------------------------------------------------------
(* Python values *)

None == [isNone |-> TRUE, v |-> <<>>]

Some(x) == [isNone |-> FALSE, v |-> x]

\* bool(x) of an Optional str / dict: None, "" and {} are falsy.
Truthy(o) == ~o.isNone /\ o.v /= <<>>

-----------------------------------------------------------------------------
(* Texts *)

Digits == {"0", "1", "2", "9"}

Lower == <<"a", "d", "i", "h", "x">>

UpperOf == <<"A", "D", "I", "H", "X">>

\* str.upper() on one character
UpperChar(c) ==
    IF \E k \in 1..Len(Lower) : Lower[k] = c
    THEN UpperOf[CHOOSE k \in 1..Len(Lower) : Lower[k] = c]
    ELSE c

\* str.upper()
upper(s) == [k \in 1..Len(s) |-> UpperChar(s[k])]

AADI == <<"A", "A", "D", "I", "-">>

\* The pattern AADI-\d+ matches at position k of s.
MatchesAt(s, k) ==
    /\ k + Len(AADI) <= Len(s)
    /\ SubSeq(s, k, k + Len(AADI) - 1) = AADI
    /\ s[k + Len(AADI)] \in Digits

\* Last position of the greedy run of digits that starts at position k.
RECURSIVE DigitRunEnd(_, _)
DigitRunEnd(s, k) ==
    IF k + 1 <= Len(s) /\ s[k + 1] \in Digits
    THEN DigitRunEnd(s, k + 1)
    ELSE k

\* re.search(r'AADI-\d+', s): the leftmost match, or None.
re_search(s) ==
    IF \E k \in 1..Len(s) : MatchesAt(s, k)
    THEN LET k == CHOOSE j \in 1..Len(s) :
                      /\ MatchesAt(s, j)
                      /\ \A h \in 1..(j - 1) : ~MatchesAt(s, h)
         IN  Some(SubSeq(s, k, DigitRunEnd(s, k + Len(AADI))))
    ELSE None

\* The search on the text as typed.
find_user_id_as_typed(text) == re_search(text)

\* Lines 34-38
find_user_id(text) == re_search(upper(text))

-----------------------------------------------------------------------------
(* The dataset file and the table *)

ID1 == <<"A", "A", "D", "I", "-", "1">>

ID2 == <<"A", "A", "D", "I", "-", "2">>

NaN == <<"NaN">>

\* financial_data.json: absent, or a JSON array of objects.
Files ==
    { [exists |-> FALSE, data |-> <<>>],
      [exists |-> TRUE,
       data |-> << << <<"netWorth", <<"5000">>>> >> >>],
      [exists |-> TRUE,
       data |-> << << <<"UserID", ID1>>, <<"netWorth", <<"5000">>>> >>,
                   << <<"UserID", ID2>>, <<"netWorth", <<"7">>>> >> >>],
      [exists |-> TRUE,
       data |-> << << <<"UserID", ID1>>, <<"netWorth", <<"5000">>>> >>,
                   << <<"UserID", ID1>>, <<"netWorth", <<"7">>>> >> >>],
      [exists |-> TRUE,
       data |-> << << <<"UserID", ID1>>, <<"netWorth", <<"5000">>>> >>,
                   << <<"UserID", ID2>>, <<"epf", <<"3">>>> >> >>],
      [exists |-> TRUE,
       data |-> << << <<"UserID", ID1>>, <<"netWorth", <<"5000">>>> >>,
                   << <<"UserID", ID1>>, <<"epf", <<"3">>>> >> >>],
      [exists |-> TRUE,
       data |-> << << <<"UserID", ID1>> >> >>] }

\* dict keys / dict lookup on a sequence of pairs
Keys(d) == {d[k][1] : k \in 1..Len(d)}

Get(d, key) == d[CHOOSE k \in 1..Len(d) : d[k][1] = key][2]

\* Column names of pd.DataFrame(data), in order of first appearance.
RECURSIVE Columns(_)
Columns(data) ==
    IF data = <<>> THEN <<>>
    ELSE LET before == Columns(SubSeq(data, 1, Len(data) - 1))
             last == data[Len(data)]
             new == SelectSeq([k \in 1..Len(last) |-> last[k][1]],
                              LAMBDA c : \A j \in 1..Len(before) : before[j] /= c)
         IN  before \o new

\* A cell of the frame: the record's value, NaN where the record lacks the field.
Cell(rec, col) == IF col \in Keys(rec) THEN Get(rec, col) ELSE NaN

\* The frame of pd.DataFrame(data) after set_index('UserID').
Frame(data) ==
    [index   |-> [k \in 1..Len(data) |-> Cell(data[k], "UserID")],
     columns |-> SelectSeq(Columns(data), LAMBDA c : c /= "UserID"),
     data    |-> data]

\* A loader that keeps, for each UserID, only the last element of the file.
load_data_last_wins(file) ==
    IF ~file.exists THEN None
    ELSE IF \E k \in 1..Len(file.data) : "UserID" \in Keys(file.data[k])
         THEN LET kept == {k \in 1..Len(file.data) :
                              \A j \in (k + 1)..Len(file.data) :
                                  Cell(file.data[j], "UserID") /= Cell(file.data[k], "UserID")}
                  pos == SelectSeq([k \in 1..Len(file.data) |-> k], LAMBDA k : k \in kept)
              IN  Some(Frame([k \in 1..Len(pos) |-> file.data[pos[k]]]))
         ELSE None

\* A loader that serves a built-in sample when the file cannot be used.
load_data_sample(file) ==
    LET sample == << << <<"UserID", ID1>>, <<"netWorth", <<"0">>>> >> >> IN
    IF ~file.exists THEN Some(Frame(sample))
    ELSE IF \E k \in 1..Len(file.data) : "UserID" \in Keys(file.data[k])
         THEN Some(Frame(file.data))
         ELSE Some(Frame(sample))

\* load_data: None on a missing file or when no record has a UserID field,
\* else the frame indexed by UserID (every row kept, in file order).
load_data(file) ==
    IF ~file.exists THEN None
    ELSE LET cols == Columns(file.data) IN
         IF \E k \in 1..Len(cols) : cols[k] = "UserID"
         THEN Some(Frame(file.data))
         ELSE None

\* Series.to_dict() of row k of the frame
RowDict(df, k) ==
    [c \in 1..Len(df.columns) |-> <<df.columns[c], Cell(df.data[k], df.columns[c])>>]

\* DataFrame.to_dict() of the rows at the positions ks (two or more rows with
\* the same label): each column maps to {label: value of the last such row},
\* written here as tokens.
SubFrameDict(df, ks, label) ==
    LET lastk == CHOOSE k \in ks : \A j \in ks : j <= k IN
    [c \in 1..Len(df.columns) |->
        <<df.columns[c],
          <<"{">> \o label \o <<":">> \o Cell(df.data[lastk], df.columns[c]) \o <<"}">> >>]

\* A lookup that falls back to the first row when the key is absent.
get_user_data_fallback(df, user_id) ==
    LET ks == {k \in 1..Len(df.index) : df.index[k] = user_id} IN
    IF ks = {} THEN Some(RowDict(df, 1))
    ELSE Some(RowDict(df, CHOOSE k \in ks : \A j \in ks : k <= j))

\* df.loc[user_id].to_dict(), None on KeyError.  (df is the frame, not None.)
get_user_data(df, user_id) ==
    LET ks == {k \in 1..Len(df.index) : df.index[k] = user_id} IN
    IF ks = {} THEN None
    ELSE IF Cardinality(ks) = 1
         THEN Some(RowDict(df, CHOOSE k \in ks : TRUE))
         ELSE Some(SubFrameDict(df, ks, user_id))

-----------------------------------------------------------------------------
(* The session *)

VARIABLES
    secrets_ok,     \* whether genai.configure(api_key=st.secrets[...]) succeeds
    file,           \* the content of financial_data.json
    financial_df,   \* the (cached) result of load_data, None before the first run
    session_keys,   \* the keys present in st.session_state
    messages,       \* st.session_state.messages
    last_user_id,   \* st.session_state.last_user_id
    pc,             \* "start", "stopped", "idle" or "calling"
    master_prompt,  \* the prompt of the call in flight, None otherwise
    turns,          \* history: one entry per chat input, oldest first
    query,          \* the argument of a call of find_user_id on its own
    extracted       \* [called, value]: what that call returned

vars == <<secrets_ok, file, financial_df, session_keys, messages, last_user_id,
          pc, master_prompt, turns, query, extracted>>

Greeting == <<"Hello! How can I help you with your finances today? Please include a UserID (e.g., AADI-001) in your question.">>

Guidance == <<"I can't seem to find a UserID in your question. Please include a UserID (like AADI-001) so I can access the correct financial data.">>

\* The texts a user submits (st.chat_input returns no empty text).
Prompts ==
    { <<"h", "i">>,
      <<"a", "a", "d", "i", "-", "1", "x">>,
      <<"x", "A", "A", "D", "I", "-", "2">>,
      <<"A", "a", "D", "i", "-", "9", "9">>,
      <<"A", "A", "D", "I", "-">> }

\* The texts response.text can be.
Responses == { <<"o", "k">>, <<"n", "o">>, <<>> }

Message(role, content) == [role |-> role, content |-> content]

\* Seeding without the test of line 64.
InitMessages_unguarded(keys, msgs) == <<Message("assistant", Greeting)>>

\* Greeting on every run.
InitMessages_regreet(keys, msgs) == Append(msgs, Message("assistant", Greeting))

\* Seeding an empty log.
InitMessages_empty(keys, msgs) ==
    IF "messages" \notin keys THEN <<>> ELSE msgs

\* Lines 64-65: the greeting is seeded when the key is absent.
InitMessages(keys, msgs) ==
    IF "messages" \notin keys THEN <<Message("assistant", Greeting)>> ELSE msgs

\* Resolution that prefers the remembered identifier to the one of the text.
ResolveUserId_sticky(found, keys, last) ==
    IF "last_user_id" \in keys THEN Some(last) ELSE found

\* Resolution from the text alone.
ResolveUserId_forgetful(found, keys, last) == found

\* Lines 82-85: the identifier of the text, else the remembered one, else None.
ResolveUserId(found, keys, last) ==
    IF ~Truthy(found) /\ "last_user_id" \in keys THEN Some(last) ELSE found

\* Remembering only the first identifier of the session.
Remember_first(last, user_id) == IF last /= <<>> THEN last ELSE user_id

\* Line 89: st.session_state.last_user_id = user_id
Remember(last, user_id) == user_id

\* "\n".join(lines)
RECURSIVE Join(_)
Join(lines) ==
    IF lines = <<>> THEN <<>>
    ELSE IF Len(lines) = 1 THEN lines[1]
    ELSE Join(SubSeq(lines, 1, Len(lines) - 1)) \o <<"\n">> \o lines[Len(lines)]

\* f'{m["role"]}: {m["content"]}'
Line(m) == <<m.role, ": ">> \o m.content

\* The history without the message appended last.
ConversationHistory_stale(msgs) ==
    Join([k \in 1..(Len(msgs) - 1) |-> Line(msgs[k])])

\* The history cut to its last two messages.
ConversationHistory_recent(msgs) ==
    Join([k \in 1..(IF Len(msgs) < 2 THEN Len(msgs) ELSE 2) |->
             Line(msgs[k + (IF Len(msgs) < 2 THEN 0 ELSE Len(msgs) - 2)])])

\* Line 94: "\n".join(f'{m["role"]}: {m["content"]}' for m in messages)
ConversationHistory(msgs) == Join([k \in 1..Len(msgs) |-> Line(msgs[k])])

\* Lines 96-116: the f-string's four substitutions (the fixed text is left out).
MasterPrompt(msgs, user_id, user_data, prompt) ==
    [conversation_history |-> ConversationHistory(msgs),
     user_id |-> user_id,
     user_data |-> user_data,
     prompt |-> prompt]

\* Appending whatever get_gemini_response returned.
ReplyMessages_untested(msgs, response) ==
    Append(msgs, Message("assistant", response.v))

\* Lines 119-121: a truthy response is appended as the assistant's message.
ReplyMessages(msgs, response) ==
    IF Truthy(response) THEN Append(msgs, Message("assistant", response.v)) ELSE msgs

\* The guidance shown but not stored.
GuidanceMessages_unstored(msgs) == msgs

\* Lines 125-127: the guidance is appended as the assistant's message.
GuidanceMessages(msgs) == Append(msgs, Message("assistant", Guidance))

Turn(prompt, before, found, user_id, calls, outcome, response) ==
    [prompt |-> prompt, before |-> before, found |-> found, user_id |-> user_id,
     calls |-> calls, outcome |-> outcome, response |-> response]

Init ==
    /\ secrets_ok \in BOOLEAN
    /\ file \in Files
    /\ financial_df = None
    /\ session_keys = {}
    /\ messages = <<>>
    /\ last_user_id = <<>>
    /\ pc = "start"
    /\ master_prompt = None
    /\ turns = <<>>
    /\ query = <<>>
    /\ extracted = [called |-> FALSE, value |-> None]

\* A run that shows the configuration error and goes on (no st.stop()).
ScriptRun_nostop ==
    /\ pc \in {"start", "stopped", "idle"}
    /\ financial_df' = load_data(file)
    /\ messages' = InitMessages(session_keys, messages)
    /\ session_keys' = session_keys \cup {"messages"}
    /\ pc' = "idle"
    /\ UNCHANGED <<secrets_ok, file, last_user_id, master_prompt, turns,
                   query, extracted>>

\* A run of the script in which st.chat_input returns None (lines 8-73).
ScriptRun ==
    /\ pc \in {"start", "stopped", "idle"}
    /\ IF ~secrets_ok
       THEN /\ pc' = "stopped"
            /\ UNCHANGED <<financial_df, session_keys, messages>>
       ELSE /\ financial_df' = load_data(file)
            /\ messages' = InitMessages(session_keys, messages)
            /\ session_keys' = session_keys \cup {"messages"}
            /\ pc' = "idle"
    /\ UNCHANGED <<secrets_ok, file, last_user_id, master_prompt, turns,
                   query, extracted>>

\* Lines 8-127 of a run in which st.chat_input returns prompt, up to the
\* return of the turn or to the call of model.generate_content; earlier is
\* the history of the turns before this one.
HandleInput(prompt, earlier) ==
    /\ secrets_ok
    /\ LET df        == financial_df   \* line 61: the cached result (line 17)
           before    == InitMessages(session_keys, messages)
           msgs      == Append(before, Message("user", prompt))
           found     == find_user_id(prompt)
           user_id   == ResolveUserId(found, session_keys, last_user_id)
       IN
       /\ UNCHANGED financial_df
       /\ IF Truthy(user_id)
          THEN /\ last_user_id' = Remember(last_user_id, user_id.v)
               /\ session_keys' = session_keys \cup {"messages", "last_user_id"}
               /\ IF df.isNone
                  THEN \* line 91: None.loc raises AttributeError, not caught
                       /\ messages' = msgs
                       /\ pc' = "idle"
                       /\ master_prompt' = None
                       /\ turns' = Append(earlier, Turn(prompt, before, found, user_id,
                                                      0, "exception", None))
                  ELSE LET user_data == get_user_data(df.v, user_id.v) IN
                       IF Truthy(user_data)
                       THEN /\ messages' = msgs
                            /\ pc' = "calling"
                            /\ master_prompt' = Some(MasterPrompt(msgs, user_id.v,
                                                                  user_data.v, prompt))
                            /\ turns' = Append(earlier, Turn(prompt, before, found, user_id,
                                                           1, "calling", None))
                       ELSE \* line 123: st.error, nothing appended
                            /\ messages' = msgs
                            /\ pc' = "idle"
                            /\ master_prompt' = None
                            /\ turns' = Append(earlier, Turn(prompt, before, found, user_id,
                                                           0, "not_found", None))
          ELSE /\ messages' = GuidanceMessages(msgs)
               /\ session_keys' = session_keys \cup {"messages"}
               /\ pc' = "idle"
               /\ master_prompt' = None
               /\ turns' = Append(earlier, Turn(prompt, before, found, user_id,
                                              0, "guidance", None))
               /\ UNCHANGED last_user_id
    /\ UNCHANGED <<secrets_ok, file, query, extracted>>

\* The user submits prompt while no run is in progress.
ChatInput(prompt) ==
    /\ pc = "idle"
    /\ Len(turns) < MaxTurns
    /\ HandleInput(prompt, turns)

\* The user submits prompt while the run of the previous turn is inside
\* get_gemini_response (line 73: the input widget is not disabled during a
\* run).  Streamlit serves the rerun request at the next st.* command of the
\* running script, which is st.markdown of line 120 or st.error of line 53:
\* the run ends there, before line 121, and the script is run again with
\* the new prompt.
ChatInputDuringCall(prompt) ==
    /\ pc = "calling"
    /\ Len(turns) < MaxTurns
    /\ HandleInput(prompt, [turns EXCEPT ![Len(turns)].outcome = "interrupted"])

\* The end of the turn once get_gemini_response has returned response.
Respond(response) ==
    /\ messages' = ReplyMessages(messages, response)
    /\ pc' = "idle"
    /\ master_prompt' = None
    /\ turns' = [turns EXCEPT ![Len(turns)] =
                    [@ EXCEPT !.outcome = IF response.isNone THEN "generation_error"
                                          ELSE IF Truthy(response) THEN "replied"
                                          ELSE "empty_reply",
                              !.response = response]]
    /\ UNCHANGED <<secrets_ok, file, financial_df, session_keys, last_user_id,
                   query, extracted>>

\* Lines 48-50, 119-121: generate_content returns and response.text is text.
GeminiReturns(text) ==
    /\ pc = "calling"
    /\ Respond(Some(text))

\* Lines 51-54, 119: the call raises; the error is shown and None returned.
GeminiRaises ==
    /\ pc = "calling"
    /\ Respond(None)

Next ==
    \/ ScriptRun
    \/ \E prompt \in Prompts : ChatInput(prompt)
    \/ \E prompt \in Prompts : ChatInputDuringCall(prompt)
    \/ \E text \in Responses : GeminiReturns(text)
    \/ GeminiRaises

Spec == Init /\ [][Next]_vars

-----------------------------------------------------------------------------
(* find_user_id on its own *)

\* Number of pieces a text is made of.
MaxChunks == 4

Chunks ==
    { <<"a", "a", "d", "i", "-">>,
      <<"A", "A", "D", "I", "-">>,
      <<"A", "a", "D", "i">>,
      <<"-">>,
      <<"1">>,
      <<"2", "9">>,
      <<"x">>,
      <<"a">> }

RECURSIVE Flatten(_)
Flatten(cs) == IF cs = <<>> THEN <<>> ELSE cs[1] \o Flatten(Tail(cs))

\* The texts find_user_id is applied to.
Queries == {Flatten(cs) : cs \in UNION {[1..n -> Chunks] : n \in 0..MaxChunks}}

InitExtract ==
    /\ query \in Queries
    /\ extracted = [called |-> FALSE, value |-> None]
    /\ secrets_ok = TRUE
    /\ file = [exists |-> FALSE, data |-> <<>>]
    /\ financial_df = None
    /\ session_keys = {}
    /\ messages = <<>>
    /\ last_user_id = <<>>
    /\ pc = "start"
    /\ master_prompt = None
    /\ turns = <<>>

\* user_id = find_user_id(query)
Extract ==
    /\ ~extracted.called
    /\ extracted' = [called |-> TRUE, value |-> find_user_id(query)]
    /\ UNCHANGED <<secrets_ok, file, financial_df, session_keys, messages,
                   last_user_id, pc, master_prompt, turns, query>>

NextExtract == Extract

SpecExtract == InitExtract /\ [][NextExtract]_vars

-----------------------------------------------------------------------------
(* Vocabulary of the properties *)

IsPrefix(s, t) == Len(s) <= Len(t) /\ SubSeq(t, 1, Len(s)) = s

UserMessage(t) == Message("user", t.prompt)

\* The log at the end of turn k (a later turn starts from it).
After(k) == IF k < Len(turns) THEN turns[k + 1].before ELSE messages

Finished(k) == turns[k].outcome /= "calling"

\* The identifier found in the latest of the turns 1..k whose text had one.
RECURSIVE LastFound(_)
LastFound(k) ==
    IF k = 0 THEN None
    ELSE IF ~turns[k].found.isNone THEN turns[k].found
    ELSE LastFound(k - 1)

\* The file was loaded into a table / the table has a record under id.
TableLoaded ==
    /\ file.exists
    /\ \E k \in 1..Len(file.data) : "UserID" \in Keys(file.data[k])

InDataset(id) ==
    \E k \in 1..Len(file.data) :
        "UserID" \in Keys(file.data[k]) /\ Get(file.data[k], "UserID") = id

-----------------------------------------------------------------------------
\* C1: a turn whose text has no identifier, in a session that has remembered
\* none, ends with the fixed guidance message appended after the user's
\* message, and the external model is not called in it.
C1_GuidanceWithoutCall ==
    \A k \in 1..Len(turns) :
        LET t == turns[k] IN
        (t.found.isNone /\ LastFound(k - 1).isNone) =>
            /\ t.outcome = "guidance"
            /\ t.calls = 0
            /\ After(k) = t.before \o <<UserMessage(t), Message("assistant", Guidance)>>
            /\ (k = Len(turns) => pc = "idle" /\ master_prompt = None)

C1_Witness ==
    /\ Len(turns) = 2
    /\ turns[1].outcome = "guidance"
    /\ turns[2].outcome = "guidance"
    /\ Len(messages) = 5

\* C2: a turn whose identifier resolves (from the text or the remembered
\* slot) while the loaded table has no record under it ends with the
\* data-not-found error: nothing but the user's message is appended and the
\* external model is not called.
C2_NotFoundWithoutReply ==
    \A k \in 1..Len(turns) :
        LET t == turns[k] IN
        (Truthy(t.user_id) /\ TableLoaded /\ ~InDataset(t.user_id.v)) =>
            /\ t.outcome = "not_found"
            /\ t.calls = 0
            /\ After(k) = Append(t.before, UserMessage(t))
            /\ (k = Len(turns) => pc = "idle" /\ master_prompt = None)

C2_Witness ==
    /\ Len(turns) = 2
    /\ turns[1].outcome = "not_found"
    /\ ~turns[1].found.isNone
    /\ turns[2].outcome = "not_found"
    /\ turns[2].found.isNone
    /\ TableLoaded

C4_ReplyAppended ==
    \A k \in 1..Len(turns) :
        LET t == turns[k] IN
        (Truthy(t.user_id) /\ TableLoaded /\ InDataset(t.user_id.v)
            /\ Finished(k) /\ t.calls = 1 /\ ~t.response.isNone) =>
            After(k) = t.before \o <<UserMessage(t), Message("assistant", t.response.v)>>

\* C5: the identifier a turn uses is the one found in its text when there is
\* one; otherwise it is the remembered one, which is the identifier found in
\* the latest earlier turn of the session whose text had one.
C5_IdentifierResolution ==
    \A k \in 1..Len(turns) :
        LET t == turns[k] IN
        /\ t.user_id = (IF ~t.found.isNone THEN t.found ELSE LastFound(k - 1))
        /\ (k = Len(turns) /\ pc = "calling" =>
                master_prompt.v.user_id = t.user_id.v)

C5_Witness ==
    /\ Len(turns) = 3
    /\ ~turns[1].found.isNone
    /\ ~turns[2].found.isNone
    /\ turns[2].found /= turns[1].found
    /\ turns[3].found.isNone
    /\ turns[3].user_id = turns[2].found
    /\ pc = "calling"

\* C6: after every turn whose text has an identifier, last_user_id is that
\* identifier, whatever the outcome of the lookup and of the external call; a
\* turn whose text has none leaves last_user_id as it was.
C6_LastUserIdFollowsText ==
    LET id == LastFound(Len(turns)) IN
    IF id.isNone
    THEN "last_user_id" \notin session_keys /\ last_user_id = <<>>
    ELSE "last_user_id" \in session_keys /\ last_user_id = id.v

C6_Witness ==
    /\ Len(turns) = 3
    /\ turns[1].outcome = "generation_error"
    /\ turns[2].outcome = "not_found"
    /\ ~turns[2].found.isNone
    /\ turns[3].found.isNone
    /\ last_user_id = turns[2].found.v
    /\ last_user_id /= turns[1].found.v

\* The lines of a joined history: the text between the "\n" tokens.
RECURSIVE SplitLines(_)
SplitLines(h) ==
    IF \E k \in 1..Len(h) : h[k] = "\n"
    THEN LET k == CHOOSE j \in 1..Len(h) :
                      h[j] = "\n" /\ \A i \in 1..(j - 1) : h[i] /= "\n"
         IN  <<SubSeq(h, 1, k - 1)>> \o SplitLines(SubSeq(h, k + 1, Len(h)))
    ELSE <<h>>

\* C7: whenever the external model is called, the history in the prompt is the
\* whole log of that moment, one "role: content" line per message in the
\* order of the log, and its last line is the user's message of the turn.
C7_PromptHoldsWholeLog ==
    pc = "calling" =>
        LET lines == SplitLines(master_prompt.v.conversation_history)
            t == turns[Len(turns)]
        IN  /\ Len(lines) = Len(messages)
            /\ \A k \in 1..Len(messages) :
                   lines[k] = <<messages[k].role, ": ">> \o messages[k].content
            /\ Len(messages) = Len(t.before) + 1
            /\ lines[Len(lines)] = <<"user", ": ">> \o t.prompt
            /\ master_prompt.v.prompt = t.prompt

C7_Witness ==
    /\ pc = "calling"
    /\ Len(turns) = 3
    /\ turns[1].outcome = "guidance"
    /\ turns[2].outcome = "replied"
    /\ Len(messages) = 6

\* C8: no turn calls the external model more than once, a call is made only
\* in a turn whose identifier resolved and whose lookup found the record, and
\* every such turn makes exactly one call.
C8_OneCallPerResolvedTurn ==
    \A k \in 1..Len(turns) :
        LET t == turns[k]
            resolved == Truthy(t.user_id) /\ TableLoaded /\ InDataset(t.user_id.v)
        IN  /\ t.calls <= 1
            /\ (t.calls >= 1 => resolved)
            /\ (resolved => t.calls = 1)

\* C9: the log is append-only: every step leaves the log it found as a prefix
\* of the log it leaves.
C9_AppendOnly == [][IsPrefix(messages, messages')]_vars

C9_Witness ==
    /\ Len(turns) = 3
    /\ turns[1].outcome = "replied"
    /\ turns[2].outcome = "generation_error"
    /\ turns[3].outcome = "not_found"
    /\ Len(messages) = 5

\* The number of messages of the log equal to m.
Occurrences(m) == Cardinality({k \in 1..Len(messages) : messages[k] = m})

\* C10: a session starts with a log of exactly one message, the assistant's
\* greeting, and nothing remembered; the greeting is seeded once, so the log
\* always starts with it and holds it once.
C10_GreetingSeededOnce ==
    /\ (pc = "start" => session_keys = {} /\ messages = <<>>)
    /\ (pc = "idle" /\ turns = <<>> =>
            /\ messages = <<Message("assistant", Greeting)>>
            /\ "last_user_id" \notin session_keys)
    /\ ("messages" \in session_keys =>
            /\ Len(messages) >= 1
            /\ messages[1] = Message("assistant", Greeting)
            /\ Occurrences(Message("assistant", Greeting)) = 1)

C10_Witness ==
    /\ Len(turns) = 2
    /\ pc = "idle"
    /\ Len(messages) = 5
    /\ messages[1] = Message("assistant", Greeting)

\* C11: when the dataset cannot be loaded (no file, or no UserID field) the
\* table is None in every run of the session, no turn is served a record and
\* no turn calls the external model.
C11_LoadFailureIsTerminal ==
    ~TableLoaded =>
        /\ financial_df = None
        /\ pc /= "calling"
        /\ master_prompt = None
        /\ \A k \in 1..Len(turns) :
               /\ turns[k].calls = 0
               /\ turns[k].outcome \in {"guidance", "exception"}
               /\ turns[k].response = None

C11_Witness ==
    /\ ~TableLoaded
    /\ file.exists
    /\ Len(turns) = 3
    /\ turns[1].outcome = "guidance"
    /\ turns[2].outcome = "exception"
    /\ turns[3].outcome = "exception"
    /\ turns[3].found.isNone

\* C12: an error other than the two fatal ones ends the current turn only:
\* after a turn that ends in the guidance, in the data-not-found error or in
\* a failed external call the session accepts the next input, and a following
\* turn whose text names an identifier of the dataset reaches the external
\* call.
C12_ErrorsEndTheTurnOnly ==
    \A k \in 1..Len(turns) :
        turns[k].outcome \in {"guidance", "not_found", "generation_error"} =>
            /\ (k = Len(turns) => pc = "idle")
            /\ (k < Len(turns) =>
                    LET n == turns[k + 1] IN
                    (TableLoaded /\ ~n.found.isNone /\ InDataset(n.found.v)) =>
                        n.calls = 1)

\* C13: when the credential cannot be configured the script stops at line 14
\* in every run: no log is created or extended, the dataset is neither loaded
\* nor looked up, no turn is processed and the external model is not called.
C13_ConfigurationFailureHalts ==
    ~secrets_ok =>
        /\ pc \in {"start", "stopped"}
        /\ session_keys = {}
        /\ messages = <<>>
        /\ financial_df = None
        /\ turns = <<>>
        /\ master_prompt = None

C13_Witness ==
    /\ ~secrets_ok
    /\ pc = "stopped"
    /\ file.exists
    /\ ~ENABLED (\E p \in Prompts : ChatInput(p))

\* The fields of the last element of the file whose UserID is id.
LoadedRecord(id) ==
    LET ks == {k \in 1..Len(file.data) :
                   "UserID" \in Keys(file.data[k]) /\ Get(file.data[k], "UserID") = id}
        k  == CHOOSE j \in ks : \A h \in ks : h <= j
    IN  SelectSeq(file.data[k], LAMBDA pair : pair[1] /= "UserID")

\* C14: for a UserID of the loaded dataset the lookup returns exactly the
\* record loaded for that key and the turn treats it as found; for any other
\* identifier the lookup returns nothing and the turn treats it as not found.
C14_ExactLookup ==
    \A k \in 1..Len(turns) :
        LET t == turns[k] IN
        (Truthy(t.user_id) /\ TableLoaded) =>
            LET user_data == get_user_data(financial_df.v, t.user_id.v) IN
            IF InDataset(t.user_id.v)
            THEN user_data = Some(LoadedRecord(t.user_id.v)) /\ t.outcome /= "not_found"
            ELSE user_data = None /\ t.outcome = "not_found"

\* The positions of the elements of the file whose UserID is id.
ElementsOf(id) ==
    {k \in 1..Len(file.data) :
        "UserID" \in Keys(file.data[k]) /\ Get(file.data[k], "UserID") = id}

Duplicated(id) == Cardinality(ElementsOf(id)) >= 2

\* The rows of the table in memory whose label is id.
RowsOf(id) ==
    LET df == financial_df.v IN {k \in 1..Len(df.index) : df.index[k] = id}

KeyedValue(id, value) == <<"{">> \o id \o <<":">> \o value \o <<"}">>

SameLetter(c, u) ==
    \/ c = u
    \/ \E k \in 1..Len(Lower) : Lower[k] = c /\ UpperOf[k] = u

\* AADI- in any case, followed by a digit, starts at position k of text.
IdentifierAt(text, k) ==
    /\ k + 5 <= Len(text)
    /\ \A j \in 1..5 : SameLetter(text[k + j - 1], AADI[j])
    /\ text[k + 5] \in Digits

\* The first such substring with all the digits that follow it, in upper
\* case: AADI- and the digits.
FirstIdentifier(text) ==
    IF \E k \in 1..Len(text) : IdentifierAt(text, k)
    THEN LET k == CHOOSE j \in 1..Len(text) :
                      IdentifierAt(text, j) /\ \A h \in 1..Len(text) :
                                                  IdentifierAt(text, h) => j <= h
             e == CHOOSE j \in (k + 5)..Len(text) :
                      /\ \A h \in (k + 5)..j : text[h] \in Digits
                      /\ (j = Len(text) \/ text[j + 1] \notin Digits)
         IN  Some(AADI \o SubSeq(text, k + 5, e))
    ELSE None

\* C16: for every text, find_user_id returns the first substring that is
\* AADI- in any case followed by one or more digits, in upper case, and
\* returns nothing exactly when the text has no such substring.
C16_ExtractFirstIdentifier ==
    extracted.called =>
        /\ extracted.value = FirstIdentifier(query)
        /\ (extracted.value.isNone <=>
                ~\E k \in 1..Len(query) : IdentifierAt(query, k))

C16_Witness ==
    /\ extracted.called
    /\ query = <<"a", "a", "d", "i", "-", "2", "9", "A", "A", "D", "I", "-", "1">>
    /\ extracted.value = Some(<<"A", "A", "D", "I", "-", "2", "9">>)

\* The ways the handler of a turn ends when it runs to its end.
Completed == {"guidance", "not_found", "exception", "replied", "empty_reply",
              "generation_error"}

\* C17: turns of a session do not overlap: a turn runs to its end before the
\* next input is accepted, so whenever the user message of a later turn is in
\* the log every earlier turn has reached its outcome, and whenever no call is
\* in flight the latest turn has reached its outcome too.
C17_TurnsRunToCompletion ==
    \A k \in 1..Len(turns) :
        (k < Len(turns) \/ pc = "idle") => turns[k].outcome \in Completed

\* C18: once an identifier is remembered it is never cleared, and from then
\* on no turn of the session ends in the guidance: every later turn resolves
\* an identifier and goes to the lookup.
C18_RememberedForGood ==
    /\ \A k \in 1..Len(turns) :
           ~LastFound(k - 1).isNone =>
               /\ Truthy(turns[k].user_id)
               /\ turns[k].outcome /= "guidance"
    /\ (\E k \in 1..Len(turns) : ~turns[k].found.isNone) =>
           "last_user_id" \in session_keys /\ last_user_id /= <<>>

C18_Witness ==
    /\ Len(turns) = 3
    /\ pc = "idle"
    /\ ~turns[1].found.isNone
    /\ turns[2].found.isNone
    /\ turns[3].found.isNone
    /\ turns[3].outcome = "not_found"
    /\ last_user_id = turns[1].found.v

\* The number of messages of the log with the role.
CountRole(role) == Cardinality({k \in 1..Len(messages) : messages[k].role = role})

\* C19: the log never holds two assistant messages in a row: every assistant
\* message but the greeting comes right after the user message of its turn,
\* and the assistant messages other than the greeting are never more than the
\* user messages.
C19_NoTwoAssistantMessagesInARow ==
    /\ \A k \in 2..Len(messages) :
           messages[k].role = "assistant" => messages[k - 1].role = "user"
    /\ \A k \in 1..Len(turns) :
           LET t == turns[k] IN
           /\ Len(After(k)) \in {Len(t.before) + 1, Len(t.before) + 2}
           /\ After(k)[Len(t.before) + 1] = UserMessage(t)
           /\ (Len(After(k)) = Len(t.before) + 2 =>
                   After(k)[Len(t.before) + 2].role = "assistant")
    /\ (messages /= <<>> => CountRole("assistant") - 1 <= CountRole("user"))

C19_Witness ==
    /\ Len(turns) = 3
    /\ pc = "idle"
    /\ turns[1].outcome = "guidance"
    /\ turns[2].outcome = "generation_error"
    /\ turns[3].outcome = "replied"
    /\ Len(messages) = 6
    /\ messages[4].role = "user"
    /\ messages[5].role = "user"

\* C20: a turn that ends in the guidance extends the log by the user's
\* message and then the guidance as an assistant message, and leaves
\* last_user_id unset; every later prompt of the session holds the guidance
\* in its history, at the place it has in the log.
C20_GuidanceStaysInHistory ==
    \A k \in 1..Len(turns) :
        LET t == turns[k] IN
        t.outcome = "guidance" =>
            /\ After(k) = t.before \o <<UserMessage(t), Message("assistant", Guidance)>>
            /\ LastFound(k).isNone
            /\ (k = Len(turns) =>
                    "last_user_id" \notin session_keys /\ last_user_id = <<>>)
            /\ (k < Len(turns) /\ pc = "calling" =>
                    LET lines == SplitLines(master_prompt.v.conversation_history) IN
                    /\ Len(lines) >= Len(t.before) + 2
                    /\ lines[Len(t.before) + 2] = <<"assistant", ": ">> \o Guidance)

C20_Witness ==
    /\ Len(turns) = 3
    /\ pc = "calling"
    /\ turns[1].outcome = "guidance"
    /\ turns[2].outcome = "replied"
    /\ Len(messages) = 6

====
